---- MODULE Spec2Model ----
(***************************************************************************)
(* Ride-sharing discrete-event simulation: Location, Driver, Rider,        *)
(* Dispatcher, the five Event kinds and Simulation.run.                    *)
(*                                                                         *)
(* Objects are identified by an index (their Python object identity); the  *)
(* id attribute is separate, because Driver.__eq__, Rider.__eq__,          *)
(* list.remove and the dispatcher's loops compare by id only.              *)
(***************************************************************************)
EXTENDS Integers, Sequences, FiniteSets, Bags, TLC

\* ---------------------------------------------------------------- bounds
NumRiders == 4
NumDrivers == 2
NumCallers == 2
MaxQueue == 2
MaxInitial == 3
MaxTime == 1
MaxSpeed == 3
MaxCoord == 3

RiderObjs == 1..NumRiders
DriverObjs == 1..NumDrivers
RiderIds == 1..NumRiders
DriverIds == 1..NumDrivers

\* "no object" (Python None where a Driver or Rider is expected)
NoObj == 0

\* ---------------------------------------------------------------- rider.py
WAITING == "waiting"
CANCELLED == "cancelled"
SATISFIED == "satisfied"

\* ---------------------------------------------------------------- monitor names
RIDER == "rider"
DRIVER == "driver"
REQUEST == "request"
CANCEL == "cancel"
PICKUP == "pickup"
DROPOFF == "dropoff"

\* ---------------------------------------------------------------- location.py
Location(row, column) == [row |-> row, col |-> column]

\* Python None where a Location is expected (Driver.destination when idle,
\* Driver.location after end_drive/end_ride ran with destination None).
NoneLoc == [row |-> -1, col |-> -1]

Abs(x) == IF x < 0 THEN -x ELSE x

\* the differences added up without abs()
manhattan_distance_signed(origin, destination) ==
    (origin.row - destination.row) + (origin.col - destination.col)

manhattan_distance(origin, destination) ==
    Abs(origin.row - destination.row) + Abs(origin.col - destination.col)

\* round() taking an exact half up, as Python 2 did for n >= 0
RoundHalfUp(n, s) ==
    LET q == n \div s
        r == n % s
    IN  IF 2 * r < s THEN q ELSE q + 1

\* Python 3 round() of the quotient n / s for n >= 0, s > 0: nearest integer,
\* an exact half goes to the even neighbour.
Round(n, s) ==
    LET q == n \div s
        r == n % s
    IN  IF 2 * r < s THEN q
        ELSE IF 2 * r > s THEN q + 1
        ELSE IF q % 2 = 0 THEN q ELSE q + 1

VARIABLES
    rider,      \* rider object -> [id, patience, origin, dest, status]
    driver,     \* driver object -> [id, location, speed, is_idle, destination]
    drivers,    \* Dispatcher._drivers: sequence of driver objects
    waiting,    \* Dispatcher._waiting_rider: sequence of rider objects
    events,     \* Simulation._events: bag of pending events
    log,        \* the monitor: category -> identifier -> activities notified
    now,        \* timestamp of the event executed last
    pc,         \* position of Simulation.run / of the caller
    last        \* the operation executed last, its arguments and what it returned

vars == <<rider, driver, drivers, waiting, events, log, now, pc, last>>

\* ---------------------------------------------------------------- driver.py
\* get_travel_time raises when self.location is None (AttributeError in
\* manhattan_distance) or self.speed is 0 (ZeroDivisionError).
get_travel_time_raises(drv, d, destination) ==
    drv[d].location = NoneLoc \/ destination = NoneLoc \/ drv[d].speed = 0

get_travel_time(drv, d, destination) ==
    Round(manhattan_distance(drv[d].location, destination), drv[d].speed)

start_drive(drv, d, location) ==
    [drv EXCEPT ![d].destination = location, ![d].is_idle = FALSE]

\* end_drive without line 76 (self.is_idle = True)
end_drive_stays_busy(drv, d) ==
    [drv EXCEPT ![d].location = drv[d].destination,
                ![d].destination = NoneLoc]

end_drive(drv, d) ==
    [drv EXCEPT ![d].location = drv[d].destination,
                ![d].destination = NoneLoc,
                ![d].is_idle = TRUE]

\* start_ride heading for the rider's origin instead of rider.dest
start_ride_to_origin(drv, d, r) ==
    [drv EXCEPT ![d].destination = rider[r].origin,
                ![d].location = rider[r].origin,
                ![d].is_idle = FALSE]

start_ride(drv, d, r) ==
    [drv EXCEPT ![d].destination = rider[r].dest,
                ![d].location = rider[r].origin,
                ![d].is_idle = FALSE]

\* end_ride that clears the destination without arriving at it
end_ride_no_move(drv, d) ==
    [drv EXCEPT ![d].destination = NoneLoc,
                ![d].is_idle = TRUE]

\* end_ride that leaves the driver busy
end_ride_stays_busy(drv, d) ==
    [drv EXCEPT ![d].location = drv[d].destination,
                ![d].destination = NoneLoc]

end_ride(drv, d) ==
    [drv EXCEPT ![d].location = drv[d].destination,
                ![d].destination = NoneLoc,
                ![d].is_idle = TRUE]

\* ---------------------------------------------------------------- dispatcher.py
\* list.remove(x) on a list of riders: removes the first element equal to x,
\* and Rider.__eq__ compares ids.
RECURSIVE ListRemove(_, _)
ListRemove(list, rid) ==
    IF list = <<>> THEN <<>>
    ELSE IF rider[Head(list)].id = rid THEN Tail(list)
    ELSE <<Head(list)>> \o ListRemove(Tail(list), rid)

\* The loop of request_driver (lines 52-61) from index i on, temp being the
\* candidate so far.
RECURSIVE ScanDrivers(_, _, _, _, _)
ScanDrivers(drv, ds, i, temp, origin) ==
    IF i > Len(ds) THEN temp
    ELSE LET d == ds[i]
             time == get_travel_time(drv, d, origin)
         IN  IF drv[d].is_idle
             THEN LET temp1 == IF temp = NoObj THEN d ELSE temp
                      best_time == get_travel_time(drv, temp1, origin)
                  IN  ScanDrivers(drv, ds, i + 1,
                                  IF time < best_time THEN d ELSE temp1, origin)
             ELSE ScanDrivers(drv, ds, i + 1, temp, origin)

\* request_driver raises when get_travel_time raises for a registered driver:
\* line 54 computes it for every registered driver, idle or not.
request_driver_raises(drv, ds, r) ==
    \E i \in 1..Len(ds) : get_travel_time_raises(drv, ds[i], rider[r].origin)

request_driver(drv, ds, wq, r) ==
    IF ds = <<>>
    THEN [ret |-> NoObj, driver |-> drv, waiting |-> Append(wq, r)]
    ELSE LET temp == ScanDrivers(drv, ds, 1, NoObj, rider[r].origin)
         IN  IF temp = NoObj
             THEN [ret |-> NoObj, driver |-> drv, waiting |-> Append(wq, r)]
             ELSE [ret |-> temp,
                   driver |-> [drv EXCEPT ![temp].is_idle = FALSE,
                                          ![temp].destination = rider[r].origin],
                   waiting |-> wq]

\* the rider queued last instead of the one queued first
WaitingLast(wq) == wq[Len(wq)]

\* self._waiting_rider[0] (line 86)
WaitingHead(wq) == wq[1]

\* `truth` never cleared: every request_rider registers
AlwaysNewDriver(drv, ds, d) == TRUE

\* The flag `truth` after the loop of lines 92-96: no registered driver has
\* the id of `d`.
IsNewDriver(drv, ds, d) ==
    \A i \in 1..Len(ds) : drv[d].id # drv[ds[i]].id

\* request_rider without line 89 (self._waiting_rider.remove(rider))
request_rider_keeps_rider(drv, ds, wq, d) ==
    LET r == IF Len(wq) > 0 THEN WaitingHead(wq) ELSE NoObj
        drv1 == IF r # NoObj
                THEN [drv EXCEPT ![d].is_idle = FALSE,
                                 ![d].destination = rider[r].origin]
                ELSE drv
        truth == IsNewDriver(drv, ds, d)
    IN  [ret |-> r, driver |-> drv1,
         drivers |-> IF truth THEN Append(ds, d) ELSE ds,
         waiting |-> wq]

request_rider(drv, ds, wq, d) ==
    LET r == IF Len(wq) > 0 THEN WaitingHead(wq) ELSE NoObj
        wq1 == IF r # NoObj THEN ListRemove(wq, rider[r].id) ELSE wq
        drv1 == IF r # NoObj
                THEN [drv EXCEPT ![d].is_idle = FALSE,
                                 ![d].destination = rider[r].origin]
                ELSE drv
        truth == IsNewDriver(drv, ds, d)
    IN  [ret |-> r, driver |-> drv1,
         drivers |-> IF truth THEN Append(ds, d) ELSE ds,
         waiting |-> wq1]

\* The for loop of cancel_ride over the list it is removing from: the list
\* iterator keeps its index, so after a removal the next element is skipped.
RECURSIVE CancelLoop(_, _, _)
CancelLoop(list, i, rid) ==
    IF i > Len(list) THEN list
    ELSE IF rider[list[i]].id = rid
         THEN CancelLoop(ListRemove(list, rid), i + 1, rid)
         ELSE CancelLoop(list, i + 1, rid)

\* cancel_ride that removes nothing
cancel_ride_keeps(wq, r) == wq

cancel_ride(wq, r) == CancelLoop(wq, 1, rider[r].id)

\* ---------------------------------------------------------------- event.py
Event(kind, timestamp, r, d) ==
    [kind |-> kind, timestamp |-> timestamp, rider |-> r, driver |-> d]

RiderRequest(timestamp, r) == Event("RiderRequest", timestamp, r, NoObj)
\* a DriverRequest filed one time unit late
DriverRequest_late(timestamp, d) ==
    Event("DriverRequest", timestamp + 1, NoObj, d)

DriverRequest(timestamp, d) == Event("DriverRequest", timestamp, NoObj, d)
Cancellation(timestamp, r) == Event("Cancellation", timestamp, r, NoObj)
Pickup(timestamp, r, d) == Event("Pickup", timestamp, r, d)
Dropoff(timestamp, r, d) == Event("Dropoff", timestamp, r, d)

\* ---------------------------------------------------------------- monitor.py
\* The monitor keeps, per category and identifier, the activities it was
\* notified of, in order.
Activity(timestamp, activity, location) ==
    [time |-> timestamp, activity |-> activity, location |-> location]

\* monitor.notify(timestamp, category, activity, identifier, location)
notify(lg, timestamp, category, activity, identifier, location) ==
    [lg EXCEPT ![category][identifier] =
        Append(@, Activity(timestamp, activity, location))]

\* What an operation leaves in `last`: its name, its arguments, the object a
\* dispatcher call returned (res), the events an Event.do returned (ret), and
\* whether it raised.
Op(name, timestamp, r, d, res, ret, raised) ==
    [op |-> name, t |-> timestamp, rider |-> r, driver |-> d,
     res |-> res, ret |-> ret, raised |-> raised]

\* ---------------------------------------------------------------- container.py
\* PriorityQueue: remove() gives an event of least timestamp; which one among
\* events of equal timestamp is not specified.
RECURSIVE AddAll(_, _)
AddAll(queue, evs) ==
    IF evs = <<>> THEN queue
    ELSE AddAll(queue (+) SetToBag({Head(evs)}), Tail(evs))

Removable(queue) ==
    {e \in BagToSet(queue) :
        \A f \in BagToSet(queue) : ~(f.timestamp < e.timestamp)}

Remove(queue, e) == queue (-) SetToBag({e})

\* ---------------------------------------------------------------- simulation.py
\* One iteration of the while loop of run (lines 58-63) whose event.do returned
\* the events `possible`.
LoopReturned(e, possible) ==
    /\ events' = AddAll(Remove(events, e), possible)
    /\ now' = e.timestamp
    /\ pc' = "running"

\* One iteration whose event.do raised: run is left by the exception.
LoopRaised(e) ==
    /\ events' = Remove(events, e)
    /\ now' = e.timestamp
    /\ pc' = "raised"

\* RiderRequest.do (event.py 171-191)
DoRiderRequest(e) ==
    /\ pc = "running"
    /\ e \in Removable(events)
    /\ e.kind = "RiderRequest"
    /\ LET r == e.rider
           res == request_driver(driver, drivers, waiting, r)
           d == res.ret
           drv == IF d # NoObj THEN start_drive(res.driver, d, rider[r].origin)
                  ELSE res.driver
           travel_time == get_travel_time(drv, d, rider[r].origin)
           possible ==
               (IF d # NoObj THEN <<Pickup(e.timestamp + travel_time, r, d)>>
                ELSE <<>>)
               \o <<Cancellation(e.timestamp + rider[r].patience, r)>>
       IN  /\ log' = notify(log, e.timestamp, RIDER, REQUEST,
                         rider[r].id, rider[r].origin)
           /\ IF request_driver_raises(driver, drivers, r)
              THEN /\ LoopRaised(e)
                   /\ last' = Op("RiderRequest", e.timestamp, r, NoObj,
                                 NoObj, <<>>, TRUE)
                   /\ UNCHANGED <<rider, driver, drivers, waiting>>
              ELSE /\ LoopReturned(e, possible)
                   /\ driver' = drv
                   /\ waiting' = res.waiting
                   /\ last' = Op("RiderRequest", e.timestamp, r, NoObj,
                                 d, possible, FALSE)
                   /\ UNCHANGED <<rider, drivers>>

\* DriverRequest.do (event.py 217-243)
DoDriverRequest(e) ==
    /\ pc = "running"
    /\ e \in Removable(events)
    /\ e.kind = "DriverRequest"
    /\ LET d == e.driver
           res == request_rider(driver, drivers, waiting, d)
           r == res.ret
           drv == IF r # NoObj THEN start_drive(res.driver, d, rider[r].origin)
                  ELSE res.driver
           raises == r # NoObj /\ get_travel_time_raises(drv, d, rider[r].origin)
           time == get_travel_time(drv, d, rider[r].origin)
           possible == IF r # NoObj THEN <<Pickup(e.timestamp + time, r, d)>>
                       ELSE <<>>
       IN  /\ log' = notify(log, e.timestamp, DRIVER, REQUEST,
                         driver[d].id, driver[d].location)
           /\ driver' = drv
           /\ drivers' = res.drivers
           /\ waiting' = res.waiting
           /\ UNCHANGED rider
           /\ IF raises
              THEN /\ LoopRaised(e)
                   /\ last' = Op("DriverRequest", e.timestamp, NoObj, d,
                                 r, <<>>, TRUE)
              ELSE /\ LoopReturned(e, possible)
                   /\ last' = Op("DriverRequest", e.timestamp, NoObj, d,
                                 r, possible, FALSE)

\* Cancellation.do without its guard
CancellationAlways(r) == TRUE

\* the guard written as "not cancelled yet"
CancellationUnlessCancelled(r) == rider[r].status # CANCELLED

\* the guard sparing a rider a driver is under way to
CancellationOnlyQueued(r) ==
    rider[r].status = WAITING /\ \E i \in 1..Len(waiting) : waiting[i] = r

\* The guard of Cancellation.do (event.py 275)
CancellationApplies(r) == rider[r].status = WAITING

\* Cancellation.do (event.py 270-284)
DoCancellation(e) ==
    /\ pc = "running"
    /\ e \in Removable(events)
    /\ e.kind = "Cancellation"
    /\ LET r == e.rider
       IN  /\ IF CancellationApplies(r)
              THEN /\ rider' = [rider EXCEPT ![r].status = CANCELLED]
                   /\ log' = notify(log, e.timestamp, RIDER, CANCEL,
                                 rider[r].id, rider[r].origin)
                   /\ waiting' = cancel_ride(waiting, r)
              ELSE UNCHANGED <<rider, log, waiting>>
           /\ LoopReturned(e, <<>>)
           /\ last' = Op("Cancellation", e.timestamp, r, NoObj, NoObj, <<>>, FALSE)
           /\ UNCHANGED <<driver, drivers>>

\* Pickup.do (event.py 314-336)
DoPickup(e) ==
    /\ pc = "running"
    /\ e \in Removable(events)
    /\ e.kind = "Pickup"
    /\ LET r == e.rider
           d == e.driver
           arrived == end_drive(driver, d)
           riding == start_ride(arrived, d, r)
           raises == get_travel_time_raises(riding, d, riding[d].destination)
           travel == get_travel_time(riding, d, riding[d].destination)
       IN  /\ UNCHANGED <<drivers, waiting>>
           /\ IF rider[r].status = WAITING
              THEN /\ rider' = [rider EXCEPT ![r].status = SATISFIED]
                   /\ log' = notify(notify(log, e.timestamp, DRIVER, PICKUP,
                                        driver[d].id, arrived[d].location),
                                 e.timestamp, RIDER, PICKUP,
                                 rider[r].id, rider[r].origin)
                   /\ driver' = riding
                   /\ IF raises
                      THEN /\ LoopRaised(e)
                           /\ last' = Op("Pickup", e.timestamp, r, d,
                                         NoObj, <<>>, TRUE)
                      ELSE /\ LoopReturned(e, <<Dropoff(e.timestamp + travel, r, d)>>)
                           /\ last' = Op("Pickup", e.timestamp, r, d, NoObj,
                                         <<Dropoff(e.timestamp + travel, r, d)>>,
                                         FALSE)
              ELSE IF rider[r].status = CANCELLED
              THEN /\ driver' = arrived
                   /\ LoopReturned(e, <<DriverRequest(e.timestamp, d)>>)
                   /\ last' = Op("Pickup", e.timestamp, r, d, NoObj,
                                 <<DriverRequest(e.timestamp, d)>>, FALSE)
                   /\ UNCHANGED <<rider, log>>
              ELSE /\ LoopReturned(e, <<>>)
                   /\ last' = Op("Pickup", e.timestamp, r, d, NoObj, <<>>, FALSE)
                   /\ UNCHANGED <<rider, log, driver>>

\* Dropoff.do (event.py 366-388)
DoDropoff(e) ==
    /\ pc = "running"
    /\ e \in Removable(events)
    /\ e.kind = "Dropoff"
    /\ LET r == e.rider
           d == e.driver
           arrived == end_ride(driver, d)
       IN  /\ driver' = arrived
           /\ log' = notify(notify(log, e.timestamp, RIDER, DROPOFF,
                                rider[r].id, rider[r].origin),
                         e.timestamp, DRIVER, DROPOFF,
                         driver[d].id, arrived[d].location)
           /\ waiting' = cancel_ride(waiting, r)
           /\ LoopReturned(e, <<DriverRequest(e.timestamp, d)>>)
           /\ last' = Op("Dropoff", e.timestamp, r, d, NoObj,
                         <<DriverRequest(e.timestamp, d)>>, FALSE)
           /\ UNCHANGED <<rider, drivers>>

\* run leaves its loop when the queue is empty and returns monitor.report()
\* (simulation.py 58, 72).
RunReturn ==
    /\ pc = "running"
    /\ events = EmptyBag
    /\ pc' = "done"
    /\ last' = Op("return", now, NoObj, NoObj, NoObj, <<>>, FALSE)
    /\ UNCHANGED <<rider, driver, drivers, waiting, events, log, now>>

\* ---------------------------------------------------------------- a run
\* Rider(identifier, patience, origin, destination) (rider.py 36-45)
Rider(identifier, patience, origin, destination) ==
    [id |-> identifier, patience |-> patience, origin |-> origin,
     dest |-> destination, status |-> WAITING]

\* Driver(identifier, location, speed) (driver.py 25-33)
Driver(identifier, location, speed) ==
    [id |-> identifier, location |-> location, speed |-> speed,
     is_idle |-> TRUE, destination |-> NoneLoc]

\* Monitor() before any notification.
EmptyLog ==
    [c \in {RIDER, DRIVER} |->
        [i \in (IF c = RIDER THEN RiderIds ELSE DriverIds) |-> <<>>]]

\* The kinds of rider and driver a run is made of.
RiderKinds ==
    <<Rider(0, 2, Location(0, 0), Location(0, 1)),
      Rider(0, 2, Location(0, 1), Location(0, 1))>>

DriverKinds ==
    <<Driver(0, Location(0, 0), 1),
      Driver(0, Location(1, 2), 2)>>

\* The input of a run: rider r requests at RiderTime(r), two riders per time
\* unit, and is of any kind; the first n drivers request at timestamp 0 and are
\* of any kind.  Objects of one class differ in their id only, which the code
\* only compares for equality, so among the objects requesting at one
\* timestamp the kinds are taken in non-decreasing order.
RiderTime(r) == (r - 1) \div 2

InputOrdered(k, t, n) ==
    \A i \in 1..(n - 1) : t[i] = t[i + 1] => k[i] <= k[i + 1]

RunInputs ==
    {in \in [rk : [RiderObjs -> 1..Len(RiderKinds)],
             dk : [DriverObjs -> 1..Len(DriverKinds)],
             n : DriverObjs] :
        /\ InputOrdered(in.rk, [r \in RiderObjs |-> RiderTime(r)], NumRiders)
        /\ InputOrdered(in.dk, [d \in DriverObjs |-> 0], in.n)
        /\ \A d \in DriverObjs : d > in.n => in.dk[d] = 1}

\* The initial events of a run (the list create_event_list builds), ids distinct.
InitialEvents(in) ==
    {RiderRequest(RiderTime(r), r) : r \in RiderObjs}
        \cup {DriverRequest(0, d) : d \in 1..in.n}

\* Simulation() and the first loop of run (simulation.py 37-55).
Init ==
    /\ \E in \in RunInputs :
           /\ rider = [r \in RiderObjs |-> [RiderKinds[in.rk[r]] EXCEPT !.id = r]]
           /\ driver = [d \in DriverObjs |-> [DriverKinds[in.dk[d]] EXCEPT !.id = d]]
           /\ events = SetToBag(InitialEvents(in))
    /\ drivers = <<>>
    /\ waiting = <<>>
    /\ log = EmptyLog
    /\ now = 0
    /\ pc = "running"
    /\ last = Op("init", 0, NoObj, NoObj, NoObj, <<>>, FALSE)

Next ==
    \/ \E e \in BagToSet(events) : DoRiderRequest(e)
    \/ \E e \in BagToSet(events) : DoDriverRequest(e)
    \/ \E e \in BagToSet(events) : DoCancellation(e)
    \/ \E e \in BagToSet(events) : DoPickup(e)
    \/ \E e \in BagToSet(events) : DoDropoff(e)
    \/ RunReturn

Spec == Init /\ [][Next]_vars

\* ---------------------------------------------------------------- direct calls
\* A client of Dispatcher and Driver (as a1_my_tests.py is): it builds riders
\* and drivers, two of which may carry the same id (rider1 and rider5 of the
\* test do), and calls the operations in any order.
CallerRiders == 1..NumCallers
CallerDrivers == DriverObjs

\* Ids up to renaming: object 1 has id 1, and each further object has an id
\* already used or the next unused one.
IdChoices(objs) ==
    {f \in [objs -> objs] :
        \A o \in objs : \/ f[o] = 1
                        \/ \E q \in objs : q < o /\ f[o] <= f[q] + 1 /\ o > 1}

KindOf(o, kinds) == ((o - 1) % Len(kinds)) + 1

InitAPI ==
    /\ \E f \in IdChoices(CallerRiders) :
           rider = [r \in RiderObjs |->
                       [RiderKinds[KindOf(r, RiderKinds)] EXCEPT
                           !.id = IF r \in CallerRiders THEN f[r] ELSE r]]
    /\ \E g \in IdChoices(DriverObjs) :
           driver = [d \in DriverObjs |->
                        [DriverKinds[KindOf(d, DriverKinds)] EXCEPT !.id = g[d]]]
    /\ drivers = <<>>
    /\ waiting = <<>>
    /\ events = EmptyBag
    /\ log = EmptyLog
    /\ now = 0
    /\ pc = "api"
    /\ last = Op("init", 0, NoObj, NoObj, NoObj, <<>>, FALSE)

Call(name, r, d, res, raised) ==
    /\ last' = Op(name, 0, r, d, res, <<>>, raised)
    /\ UNCHANGED <<rider, events, log, now, pc>>

\* dispatcher.request_driver(rider)
RequestDriver(r) ==
    /\ pc = "api"
    /\ IF request_driver_raises(driver, drivers, r)
       THEN /\ Call("request_driver", r, NoObj, NoObj, TRUE)
            /\ UNCHANGED <<driver, drivers, waiting>>
       ELSE LET res == request_driver(driver, drivers, waiting, r)
            IN  /\ Len(res.waiting) <= MaxQueue
                /\ driver' = res.driver
                /\ waiting' = res.waiting
                /\ Call("request_driver", r, NoObj, res.ret, FALSE)
                /\ UNCHANGED drivers

\* dispatcher.request_rider(driver)
RequestRider(d) ==
    /\ pc = "api"
    /\ LET res == request_rider(driver, drivers, waiting, d)
       IN  /\ driver' = res.driver
           /\ drivers' = res.drivers
           /\ waiting' = res.waiting
           /\ Call("request_rider", NoObj, d, res.ret, FALSE)

\* dispatcher.cancel_ride(rider)
CancelRide(r) ==
    /\ pc = "api"
    /\ waiting' = cancel_ride(waiting, r)
    /\ Call("cancel_ride", r, NoObj, NoObj, FALSE)
    /\ UNCHANGED <<driver, drivers>>

\* driver.start_drive(rider.origin), as the events call it
StartDrive(d, r) ==
    /\ pc = "api"
    /\ driver' = start_drive(driver, d, rider[r].origin)
    /\ Call("start_drive", r, d, NoObj,
            get_travel_time_raises(driver, d, rider[r].origin))
    /\ UNCHANGED <<drivers, waiting>>

\* driver.end_drive()
EndDrive(d) ==
    /\ pc = "api"
    /\ driver' = end_drive(driver, d)
    /\ Call("end_drive", NoObj, d, NoObj, FALSE)
    /\ UNCHANGED <<drivers, waiting>>

\* driver.start_ride(rider)
StartRide(d, r) ==
    /\ pc = "api"
    /\ driver' = start_ride(driver, d, r)
    /\ Call("start_ride", r, d, NoObj,
            get_travel_time_raises(driver', d, driver'[d].destination))
    /\ UNCHANGED <<drivers, waiting>>

\* driver.end_ride()
EndRide(d) ==
    /\ pc = "api"
    /\ driver' = end_ride(driver, d)
    /\ Call("end_ride", NoObj, d, NoObj, FALSE)
    /\ UNCHANGED <<drivers, waiting>>

NextAPI ==
    \/ \E r \in CallerRiders : RequestDriver(r)
    \/ \E d \in CallerDrivers : RequestRider(d)
    \/ \E r \in CallerRiders : CancelRide(r)
    \/ \E d \in CallerDrivers, r \in CallerRiders : StartDrive(d, r)
    \/ \E d \in CallerDrivers : EndDrive(d)
    \/ \E d \in CallerDrivers, r \in CallerRiders : StartRide(d, r)
    \/ \E d \in CallerDrivers : EndRide(d)

SpecAPI == InitAPI /\ [][NextAPI]_vars

\* ---------------------------------------------------------------- run on any events
\* Simulation.run(initial_events) takes any list of events, not only the
\* requests create_event_list reads: a caller may hand it Cancellation,
\* Pickup and Dropoff events it built itself, for any rider and driver.
AnyEvents ==
    {RiderRequest(t, r) : t \in 0..MaxTime, r \in CallerRiders}
        \cup {DriverRequest(t, d) : t \in 0..MaxTime, d \in CallerDrivers}
        \cup {Cancellation(t, r) : t \in 0..MaxTime, r \in CallerRiders}
        \cup {Pickup(t, r, d) : t \in 0..MaxTime, r \in CallerRiders,
                                d \in CallerDrivers}
        \cup {Dropoff(t, r, d) : t \in 0..MaxTime, r \in CallerRiders,
                                 d \in CallerDrivers}

\* The initial lists of at most k events, the empty list among them.
RECURSIVE ListsUpTo(_)
ListsUpTo(k) ==
    IF k = 0 THEN {{}}
    ELSE LET shorter == ListsUpTo(k - 1)
         IN  shorter \cup {l \cup {e} : l \in shorter, e \in AnyEvents}

InitialLists == ListsUpTo(MaxInitial)

InitEvents ==
    /\ rider = [r \in RiderObjs |->
                   [RiderKinds[KindOf(r, RiderKinds)] EXCEPT !.id = r]]
    /\ driver = [d \in DriverObjs |->
                    [DriverKinds[KindOf(d, DriverKinds)] EXCEPT !.id = d]]
    /\ \E l \in InitialLists : events = SetToBag(l)
    /\ drivers = <<>>
    /\ waiting = <<>>
    /\ log = EmptyLog
    /\ now = 0
    /\ pc = "running"
    /\ last = Op("init", 0, NoObj, NoObj, NoObj, <<>>, FALSE)

SpecEvents == InitEvents /\ [][Next]_vars

\* ---------------------------------------------------------------- one rider, one driver
\* The driver and the rider a1_my_tests.py builds (lines 9-10), and runs of
\* one driver and one rider like them, both requesting at timestamp 0.
D0 == Driver(0, Location(3, 5), 3)
R0 == Rider(0, 10, Location(7, 7), Location(20, 2))

ScenarioDrivers == {Driver(0, D0.location, s) : s \in 1..MaxSpeed}
ScenarioRiders ==
    {Rider(0, p, o, t) : p \in {1, R0.patience},
                         o \in {R0.origin, Location(3, 6)},
                         t \in {R0.dest, Location(7, 8)}}

InitScenario ==
    /\ \E r0 \in ScenarioRiders :
           rider = [r \in RiderObjs |->
                       [(IF r = 1 THEN r0 ELSE RiderKinds[KindOf(r, RiderKinds)])
                           EXCEPT !.id = r]]
    /\ \E d0 \in ScenarioDrivers :
           driver = [d \in DriverObjs |->
                        [(IF d = 1 THEN d0 ELSE DriverKinds[KindOf(d, DriverKinds)])
                            EXCEPT !.id = d]]
    /\ events = SetToBag({DriverRequest(0, 1), RiderRequest(0, 1)})
    /\ drivers = <<>>
    /\ waiting = <<>>
    /\ log = EmptyLog
    /\ now = 0
    /\ pc = "running"
    /\ last = Op("init", 0, NoObj, NoObj, NoObj, <<>>, FALSE)

SpecScenario == InitScenario /\ [][Next]_vars

\* ---------------------------------------------------------------- travel times
\* Driver.get_travel_time called for drivers at any location of a grid, of any
\* positive speed, and for riders of any origin on the grid.
Grid == {Location(row, column) : row \in 0..MaxCoord, column \in 0..MaxCoord}

InitTravel ==
    /\ \E o \in Grid :
           rider = [r \in RiderObjs |->
                       [RiderKinds[KindOf(r, RiderKinds)] EXCEPT
                           !.id = r,
                           !.origin = IF r = 1 THEN o ELSE @]]
    /\ \E l \in Grid, s \in 1..MaxSpeed :
           driver = [d \in DriverObjs |->
                        [DriverKinds[KindOf(d, DriverKinds)] EXCEPT
                            !.id = d,
                            !.location = IF d = 1 THEN l ELSE @,
                            !.speed = IF d = 1 THEN s ELSE @]]
    /\ drivers = <<>>
    /\ waiting = <<>>
    /\ events = EmptyBag
    /\ log = EmptyLog
    /\ now = 0
    /\ pc = "api"
    /\ last = Op("init", 0, NoObj, NoObj, NoObj, <<>>, FALSE)

\* driver.get_travel_time(rider.origin); `res` is the time it returned.
GetTravelTime(d, r) ==
    /\ pc = "api"
    /\ ~get_travel_time_raises(driver, d, rider[r].origin)
    /\ Call("get_travel_time", r, d,
            get_travel_time(driver, d, rider[r].origin), FALSE)
    /\ UNCHANGED <<driver, drivers, waiting>>

NextTravel == \E d \in DriverObjs, r \in RiderObjs : GetTravelTime(d, r)

SpecTravel == InitTravel /\ [][NextTravel]_vars

\* ---------------------------------------------------------------- any numbers
\* Driver.__init__, Rider.__init__ and Event.__init__ store what they are
\* given: a driver may be built with speed 0, a rider with a negative
\* patience and an event with a negative timestamp, and run takes them.
AnySpeeds == 0..MaxSpeed
AnyPatiences == {-1, 0, 2}
AnyTimestamps == {-1, 0}

InitAnyNumbers ==
    /\ \E p \in AnyPatiences :
           rider = [r \in RiderObjs |->
                       [RiderKinds[KindOf(r, RiderKinds)] EXCEPT
                           !.id = r,
                           !.patience = IF r = 1 THEN p ELSE @]]
    /\ \E s \in AnySpeeds :
           driver = [d \in DriverObjs |->
                        [DriverKinds[KindOf(d, DriverKinds)] EXCEPT
                            !.id = d,
                            !.speed = IF d = 1 THEN s ELSE @]]
    /\ \E t \in AnyTimestamps :
           events = SetToBag({DriverRequest(t, 1), RiderRequest(0, 1),
                              RiderRequest(0, 2)})
    /\ drivers = <<>>
    /\ waiting = <<>>
    /\ log = EmptyLog
    /\ now = 0
    /\ pc = "running"
    /\ last = Op("init", 0, NoObj, NoObj, NoObj, <<>>, FALSE)

SpecAnyNumbers == InitAnyNumbers /\ [][Next]_vars

\* ---------------------------------------------------------------- properties
Registered(ds) == {ds[i] : i \in 1..Len(ds)}
IdsIn(wq) == {rider[wq[i]].id : i \in 1..Len(wq)}

\* C1: every driver is idle exactly when it has no destination, after every
\* Dispatcher and Driver operation.
C1_IdleIffNoDestination ==
    \A d \in DriverObjs :
        driver[d].is_idle <=> (driver[d].destination = NoneLoc)

\* A driver was sent to a rider and then arrived: one driver is idle again at
\* a place other than where it started, while another one is under way.
C1_Witness ==
    /\ last.op \in {"end_drive", "end_ride"}
    /\ driver[last.driver].is_idle
    /\ driver[last.driver].location # NoneLoc
    /\ \E d \in DriverObjs : ~driver[d].is_idle /\ driver[d].destination # NoneLoc

\* C2: a rider starts Waiting, and its status changes only from Waiting, to
\* Cancelled or Satisfied; a Cancelled or Satisfied rider stays as it is.
C2_StatusChangesOnce ==
    /\ \A r \in RiderObjs : rider[r].status = WAITING
    /\ [][\A r \in RiderObjs :
            /\ rider[r].status # WAITING => rider'[r].status = rider[r].status
            /\ rider'[r].status \in {WAITING, CANCELLED, SATISFIED}]_vars

\* A Cancellation was executed for a rider that had been picked up before.
C2_Witness ==
    /\ last.op = "Cancellation"
    /\ rider[last.rider].status = SATISFIED

\* C3: request_driver returns only a driver that was registered and idle, and
\* afterwards either that driver is under way to rider.origin with the queue
\* unchanged, or nothing was returned, the rider is at the tail of the queue
\* and no driver changed.
C3_RequestDriverOutcome ==
    [][last'.op \in {"RiderRequest", "request_driver"} =>
        LET r == last'.rider
            d == last'.res
            reassigned == /\ d # NoObj
                          /\ ~driver'[d].is_idle
                          /\ driver'[d].destination = rider[r].origin
                          /\ waiting' = waiting
            enqueued == /\ d = NoObj
                        /\ waiting' = Append(waiting, r)
                        /\ driver' = driver
        IN  /\ ~last'.raised
            /\ d # NoObj => d \in Registered(drivers) /\ driver[d].is_idle
            /\ reassigned # enqueued]_vars

\* The travel time request_driver compares, for a driver that has a location.
TravelTime(d, destination) ==
    Round(manhattan_distance(driver[d].location, destination), driver[d].speed)

IdleRegistered == {d \in Registered(drivers) : driver[d].is_idle}

Position(ds, d) == CHOOSE i \in 1..Len(ds) : ds[i] = d

\* C4: with an idle registered driver, request_driver returns the idle
\* registered driver of least travel time to rider.origin, the one registered
\* earliest among those of least travel time.
C4_NearestIdleDriver ==
    [][last'.op \in {"RiderRequest", "request_driver"} /\ IdleRegistered # {} =>
        LET r == last'.rider
            d == last'.res
        IN  /\ ~last'.raised
            /\ d \in IdleRegistered
            /\ \A o \in IdleRegistered :
                  \/ TravelTime(d, rider[r].origin) < TravelTime(o, rider[r].origin)
                  \/ /\ TravelTime(d, rider[r].origin) = TravelTime(o, rider[r].origin)
                     /\ Position(drivers, d) <= Position(drivers, o)]_vars

\* C5: request_rider on a non-empty queue returns the head, leaves the tail
\* as the queue and sends the driver to the head's origin; request_driver
\* with no driver registered appends the rider.
C5_Fifo ==
    [][/\ last'.op \in {"request_rider", "DriverRequest"} /\ waiting # <<>> =>
            /\ last'.res = Head(waiting)
            /\ waiting' = Tail(waiting)
            /\ ~driver'[last'.driver].is_idle
            /\ driver'[last'.driver].destination = rider[Head(waiting)].origin
       /\ last'.op \in {"request_driver", "RiderRequest"} /\ drivers = <<>> =>
            waiting' = Append(waiting, last'.rider)]_vars

\* request_rider matched the first of two queued riders; the second is still
\* queued.
C5_Witness ==
    /\ last.op = "request_rider"
    /\ last.res # NoObj
    /\ waiting # <<>>
    /\ waiting[1] # last.res

\* C6: no id is registered twice; after request_rider(driver) the driver's id
\* is registered, matched or not; and a call for an id already registered
\* leaves the registered drivers as they were.
C6_RegistrationIdempotent ==
    /\ [](\A i, j \in 1..Len(drivers) :
            i # j => driver[drivers[i]].id # driver[drivers[j]].id)
    /\ [][last'.op \in {"request_rider", "DriverRequest"} =>
            /\ \E i \in 1..Len(drivers') :
                  driver[drivers'[i]].id = driver[last'.driver].id
            /\ (\E i \in 1..Len(drivers) :
                  driver[drivers[i]].id = driver[last'.driver].id)
               => drivers' = drivers]_vars

\* request_rider was called for a driver object that is not the registered
\* one but has its id, and with no rider waiting.
C6_Witness ==
    /\ last.op = "request_rider"
    /\ last.res = NoObj
    /\ last.driver \notin Registered(drivers)
    /\ drivers # <<>>

\* C7: cancel_ride for an id that is not queued changes neither the queue nor
\* a driver and raises nothing, and a second cancel_ride right after a first
\* one for the same rider changes nothing any more.
C7_CancelAbsentAndTwice ==
    [][/\ last'.op = "cancel_ride" /\ rider[last'.rider].id \notin IdsIn(waiting) =>
            /\ waiting' = waiting
            /\ driver' = driver
            /\ drivers' = drivers
            /\ ~last'.raised
       /\ last'.op = "cancel_ride" /\ last.op = "cancel_ride"
            /\ last'.rider = last.rider =>
            waiting' = waiting]_vars

\* l without the riders of id rid, the others in their order.
Without(l, rid) == SelectSeq(l, LAMBDA x : rider[x].id # rid)

\* C8: after cancel_ride(rider) no rider of that id is queued, and the riders
\* of other ids are queued in their former order.
C8_CancelRemovesAll ==
    [][last'.op = "cancel_ride" =>
        /\ rider[last'.rider].id \notin IdsIn(waiting')
        /\ Without(waiting', rider[last'.rider].id)
             = Without(waiting, rider[last'.rider].id)]_vars

\* C9: RiderRequest.do returns a Cancellation at t + patience, preceded by a
\* Pickup at t + travel time of the matched driver exactly when a driver was
\* matched; with no driver matched the rider is queued.
C9_RiderRequestReturns ==
    [][last'.op = "RiderRequest" =>
        LET r == last'.rider
            d == last'.res
            t == last'.t
            cancel == Cancellation(t + rider[r].patience, r)
        IN  /\ ~last'.raised
            /\ d # NoObj =>
                 last'.ret = <<Pickup(t + TravelTime(d, rider[r].origin), r, d),
                               cancel>>
            /\ d = NoObj =>
                 /\ last'.ret = <<cancel>>
                 /\ waiting' = Append(waiting, r)]_vars

\* C10: Pickup.do for a Waiting rider makes the rider Satisfied, puts the
\* driver at rider.origin, under way to rider.dest, and returns one Dropoff at
\* t + travel time from origin to dest.
C10_PickupWaiting ==
    [][last'.op = "Pickup" /\ rider[last'.rider].status = WAITING =>
        LET r == last'.rider
            d == last'.driver
        IN  /\ ~last'.raised
            /\ rider'[r].status = SATISFIED
            /\ driver'[d].location = rider[r].origin
            /\ ~driver'[d].is_idle
            /\ driver'[d].destination = rider[r].dest
            /\ last'.ret =
                 <<Dropoff(last'.t + Round(manhattan_distance(rider[r].origin,
                                                              rider[r].dest),
                                           driver[d].speed), r, d)>>]_vars

\* A Pickup picked a waiting rider up and returned its Dropoff.
C10_Witness ==
    /\ last.op = "Pickup"
    /\ rider[last.rider].status = SATISFIED
    /\ Len(last.ret) = 1
    /\ last.ret[1].kind = "Dropoff"

\* C11: Pickup.do for a Cancelled rider leaves the rider Cancelled and the
\* monitor as it was, leaves the driver idle, without destination, at the
\* pickup point (the rider's origin) it was sent to, and returns one
\* DriverRequest for the driver at the Pickup's timestamp.
C11_PickupCancelled ==
    [][last'.op = "Pickup" /\ rider[last'.rider].status = CANCELLED =>
        LET r == last'.rider
            d == last'.driver
        IN  /\ ~last'.raised
            /\ rider' = rider
            /\ log' = log
            /\ driver'[d].is_idle
            /\ driver'[d].destination = NoneLoc
            /\ driver'[d].location = rider[r].origin
            /\ last'.ret = <<DriverRequest(last'.t, d)>>]_vars

\* C12: Dropoff.do leaves the driver idle, without destination, at the
\* rider's destination, leaves every rider's status as it was, and returns
\* one DriverRequest for the driver at the Dropoff's timestamp.
C12_Dropoff ==
    [][last'.op = "Dropoff" =>
        LET r == last'.rider
            d == last'.driver
        IN  /\ ~last'.raised
            /\ rider' = rider
            /\ driver'[d].is_idle
            /\ driver'[d].destination = NoneLoc
            /\ driver'[d].location = rider[r].dest
            /\ last'.ret = <<DriverRequest(last'.t, d)>>]_vars

\* C13: a Cancellation for a rider that is not Waiting, and a Pickup for a
\* rider that is Satisfied, raise nothing, return no event, notify nothing
\* and leave riders, drivers, the waiting queue and the registered drivers
\* as they were.
C13_StaleEventsNoOp ==
    [][\/ last'.op = "Cancellation" /\ rider[last'.rider].status # WAITING
       \/ last'.op = "Pickup" /\ rider[last'.rider].status = SATISFIED
       => /\ ~last'.raised
          /\ last'.ret = <<>>
          /\ log' = log
          /\ rider' = rider
          /\ driver' = driver
          /\ waiting' = waiting
          /\ drivers' = drivers]_vars

\* A Pickup was executed for a rider that had been picked up before; it
\* returned nothing, while a driver has activities in the monitor.
C13_Witness ==
    /\ last.op = "Pickup"
    /\ last.ret = <<>>
    /\ rider[last.rider].status = SATISFIED
    /\ \E d \in DriverObjs : log[DRIVER][driver[d].id] # <<>>

EventOps == {"RiderRequest", "DriverRequest", "Cancellation", "Pickup", "Dropoff"}

\* C14: every event run executes has a timestamp not less than that of the
\* event executed before it, every event it returns has a timestamp not less
\* than its own, and no pending event is earlier than the event executed
\* last, whichever event of least timestamp is taken.
C14_TimestampsMonotone ==
    [][last'.op \in EventOps =>
        /\ last'.t = now'
        /\ now' >= now
        /\ \A i \in 1..Len(last'.ret) : last'.ret[i].timestamp >= last'.t
        /\ \A e \in BagToSet(events') : e.timestamp >= now']_vars

\* A RiderRequest after timestamp 0 returned a Pickup at its own timestamp
\* and a later Cancellation.
C14_Witness ==
    /\ last.op = "RiderRequest"
    /\ last.t > 0
    /\ Len(last.ret) = 2
    /\ last.ret[1].timestamp = last.t
    /\ last.ret[2].timestamp > last.t

\* C15: run only ever leaves its loop by returning with the event queue
\* empty, every scheduled event executed: it is never ended by an exception
\* of an event, which would leave it without a return and with events that
\* are never executed.
C15_RunReturns ==
    /\ pc \in {"running", "done"}
    /\ pc = "done" => events = EmptyBag

\* What the monitor was notified of for rider r, and the activities alone.
RiderLog(lg, r) == lg[RIDER][rider[r].id]
Activities(l) == [i \in 1..Len(l) |-> l[i].activity]

\* How often rider r is in the waiting queue, and how many Pickup events for
\* r are pending.
TimesQueued(wq, r) == Cardinality({i \in 1..Len(wq) : wq[i] = r})
PendingPickups(queue, r) ==
    LET ps == {e \in BagToSet(queue) : e.kind = "Pickup" /\ e.rider = r}
    IN  IF ps = {} THEN 0
        ELSE IF Cardinality(ps) = 1
             THEN CopiesIn(CHOOSE e \in ps : TRUE, queue)
             ELSE 2

\* The notifications a rider may have got so far.
LifecycleLogs ==
    {<<>>, <<REQUEST>>, <<REQUEST, CANCEL>>, <<REQUEST, PICKUP>>,
     <<REQUEST, PICKUP, DROPOFF>>}

\* C16: a rider is queued only by its first request and never twice, is
\* matched (a Pickup scheduled for it) only by that request or out of the
\* queue, which it then leaves, so at most once; its notifications are a
\* Request, then at most one of Cancel and Pickup, then a Dropoff only after
\* a Pickup; and notifications carry the timestamp of the event executed,
\* which never decreases.
C16_RiderLifecycle ==
    /\ [](\A r \in RiderObjs :
            /\ Activities(RiderLog(log, r)) \in LifecycleLogs
            /\ TimesQueued(waiting, r) <= 1
            /\ PendingPickups(events, r) <= 1
            /\ TimesQueued(waiting, r) = 1 => PendingPickups(events, r) = 0)
    /\ [][\A r \in RiderObjs :
            /\ TimesQueued(waiting', r) > TimesQueued(waiting, r) =>
                  /\ last'.op = "RiderRequest" /\ last'.rider = r
                  /\ RiderLog(log, r) = <<>>
                  /\ PendingPickups(events', r) = 0
            /\ PendingPickups(events', r) > PendingPickups(events, r) =>
                  /\ TimesQueued(waiting', r) = 0
                  /\ \/ /\ last'.op = "RiderRequest" /\ last'.rider = r
                        /\ RiderLog(log, r) = <<>>
                     \/ /\ last'.op = "DriverRequest" /\ last'.res = r
                        /\ TimesQueued(waiting, r) = 1
            /\ Len(RiderLog(log', r)) >= Len(RiderLog(log, r))
            /\ SubSeq(RiderLog(log', r), 1, Len(RiderLog(log, r)))
                  = RiderLog(log, r)
            /\ \A i \in (Len(RiderLog(log, r)) + 1)..Len(RiderLog(log', r)) :
                  RiderLog(log', r)[i].time = now' /\ now' >= now]_vars
    /\ [][\A c \in {RIDER, DRIVER} : \A id \in DOMAIN log[c] :
            \A i \in (Len(log[c][id]) + 1)..Len(log'[c][id]) :
                log'[c][id][i].time = now' /\ now' >= now]_vars

\* One rider was queued, matched, picked up and dropped off at a later
\* timestamp than it requested, and another one cancelled.
C16_Witness ==
    \E r1, r2 \in RiderObjs :
        /\ Activities(RiderLog(log, r1)) = <<REQUEST, PICKUP, DROPOFF>>
        /\ RiderLog(log, r1)[3].time > RiderLog(log, r1)[1].time
        /\ Activities(RiderLog(log, r2)) = <<REQUEST, CANCEL>>

\* Rider 1 is R0 and driver 1 has the speed of D0 (it starts where D0 does).
InScenario ==
    /\ rider[1].patience = R0.patience
    /\ rider[1].origin = R0.origin
    /\ rider[1].dest = R0.dest
    /\ driver[1].speed = D0.speed

\* C17: with D0 at (3,5), speed 3, and R0 of patience 10 from (7,7) to
\* (20,2): RiderRequest(0, R0) with D0 registered and idle matches D0 and
\* returns Pickup at 2 and Cancellation at 10; the Pickup is executed at 2,
\* makes R0 Satisfied and returns Dropoff at 8; the Cancellation at 10 changes
\* and notifies nothing; and when run returns D0 is idle at (20,2).
C17_EndToEnd ==
    [][InScenario =>
        /\ (/\ last'.op = "RiderRequest"
             /\ drivers = <<1>>
             /\ driver[1].is_idle
             /\ driver[1].location = D0.location)
            => /\ last'.t = 0
               /\ last'.res = 1
               /\ last'.ret = <<Pickup(2, 1, 1), Cancellation(10, 1)>>
        /\ last'.op = "Pickup"
            => /\ last'.t = 2
               /\ rider[1].status = WAITING
               /\ rider'[1].status = SATISFIED
               /\ last'.ret = <<Dropoff(8, 1, 1)>>
        /\ last'.op = "Cancellation"
            => /\ last'.t = 10
               /\ last'.ret = <<>>
               /\ rider' = rider
               /\ driver' = driver
               /\ log' = log
               /\ waiting' = waiting
        /\ pc' = "done"
            => /\ rider'[1].status = SATISFIED
               /\ driver'[1].is_idle
               /\ driver'[1].destination = NoneLoc
               /\ driver'[1].location = Location(20, 2)]_vars

\* The run of D0 and R0 has returned, after the Dropoff at 8 and the
\* Cancellation at 10.
C17_Witness ==
    /\ InScenario
    /\ pc = "done"
    /\ now = 10
    /\ Activities(RiderLog(log, 1)) = <<REQUEST, PICKUP, DROPOFF>>
    /\ RiderLog(log, 1)[3].time = 8
    /\ driver[1].location = R0.dest

\* C18: the distance between a driver's location A and a rider's origin B is
\* |A.row - B.row| + |A.col - B.col|, not negative and the same from B to A;
\* get_travel_time returns the integer nearest to distance / speed, the even
\* one of the two when the quotient is an exact half, and it is not negative.
C18_DistanceAndTravelTime ==
    last.op = "get_travel_time" =>
        LET A == driver[last.driver].location
            B == rider[last.rider].origin
            s == driver[last.driver].speed
            t == last.res
            rows == IF A.row >= B.row THEN A.row - B.row ELSE B.row - A.row
            cols == IF A.col >= B.col THEN A.col - B.col ELSE B.col - A.col
            dist == manhattan_distance(A, B)
            off == IF dist >= t * s THEN dist - t * s ELSE t * s - dist
        IN  /\ ~last.raised
            /\ dist = rows + cols
            /\ dist >= 0
            /\ manhattan_distance(B, A) = dist
            /\ t >= 0
            /\ 2 * off <= s
            /\ 2 * off = s => t % 2 = 0

\* get_travel_time was asked for a quotient that is an exact half above an
\* even integer greater than 0 (5 / 2), and returned the even integer.
C18_Witness ==
    /\ last.op = "get_travel_time"
    /\ last.res > 0
    /\ LET dist == manhattan_distance(driver[last.driver].location,
                                      rider[last.rider].origin)
       IN  2 * (dist - last.res * driver[last.driver].speed)
             = driver[last.driver].speed

\* The operation executed last matched driver d with a rider.
Matched(op, d) ==
    \/ op.op = "RiderRequest" /\ op.res = d
    \/ op.op = "DriverRequest" /\ op.driver = d /\ op.res # NoObj

\* C19: a driver is idle when a RiderRequest or DriverRequest matches it; it
\* stops being idle only by a match, becomes idle again only by its Dropoff
\* or by its Pickup of a Cancelled rider, and while it is not idle its
\* destination changes only by its Pickup of a Waiting rider.
C19_DriverEdges ==
    [][\A d \in DriverObjs :
        /\ Matched(last', d) => driver[d].is_idle
        /\ driver[d].is_idle /\ ~driver'[d].is_idle => Matched(last', d)
        /\ ~driver[d].is_idle /\ driver'[d].is_idle =>
              /\ last'.driver = d
              /\ \/ last'.op = "Dropoff"
                 \/ /\ last'.op = "Pickup"
                    /\ rider[last'.rider].status = CANCELLED
        /\ (/\ ~driver[d].is_idle
             /\ ~driver'[d].is_idle
             /\ driver'[d].destination # driver[d].destination) =>
              /\ last'.op = "Pickup"
              /\ last'.driver = d
              /\ rider[last'.rider].status = WAITING]_vars

\* The timestamp at which rider r gives up: that of its RiderRequest plus
\* its patience.
Deadline(r) == RiderTime(r) + rider[r].patience

\* C20: a rider becomes Satisfied only at a timestamp up to its request
\* timestamp plus its patience, and a rider that is Waiting when its
\* Cancellation is executed becomes Cancelled, whether or not a driver is
\* under way to it.
C20_PatienceDeadline ==
    [][\A r \in RiderObjs :
        /\ rider[r].status # SATISFIED /\ rider'[r].status = SATISFIED =>
              /\ last'.op = "Pickup" /\ last'.rider = r
              /\ now' <= Deadline(r)
        /\ (/\ last'.op = "Cancellation" /\ last'.rider = r
             /\ rider[r].status = WAITING) =>
              /\ last'.t = Deadline(r)
              /\ rider'[r].status = CANCELLED]_vars

\* A rider was cancelled at its deadline while a driver was under way to it:
\* its Pickup is still pending.
C20_Witness ==
    /\ last.op = "Cancellation"
    /\ last.t = Deadline(last.rider)
    /\ rider[last.rider].status = CANCELLED
    /\ PendingPickups(events, last.rider) = 1

\* C21: no run reaches a travel-time computation that divides by a speed of
\* 0: no event is ended by get_travel_time raising for a driver that has a
\* location and speed 0 (such a driver would have been refused when built).
C21_InvalidInputRejected ==
    ~(/\ last.raised
      /\ \E d \in DriverObjs :
            /\ d \in Registered(drivers) \/ d = last.driver
            /\ driver[d].location # NoneLoc
            /\ driver[d].speed = 0)

\* How many pending Pickup and Dropoff events are for driver d.
PendingFor(queue, d) ==
    LET es == {e \in BagToSet(queue) :
                  e.kind \in {"Pickup", "Dropoff"} /\ e.driver = d}
    IN  BagCardinality([e \in es |-> CopiesIn(e, queue)])

\* C22: at any time at most one pending Pickup or Dropoff event is for a
\* given driver, and no driver has lost its location, as it does when
\* end_drive or end_ride runs on a driver whose destination is empty.
C22_NoDoubleBooking ==
    \A d \in DriverObjs :
        /\ PendingFor(events, d) <= 1
        /\ driver[d].location # NoneLoc

\* C23: every rider in the waiting queue is Waiting, has no Pickup event
\* pending and is in the queue once.
C23_WaitingQueue ==
    \A i \in 1..Len(waiting) :
        /\ rider[waiting[i]].status = WAITING
        /\ PendingPickups(events, waiting[i]) = 0
        /\ TimesQueued(waiting, waiting[i]) = 1

\* A Cancellation took a rider no driver was sent to out of a queue of at
\* least two riders, after another rider was matched out of the queue.
C23_Witness ==
    /\ last.op = "Cancellation"
    /\ rider[last.rider].status = CANCELLED
    /\ Activities(RiderLog(log, last.rider)) = <<REQUEST, CANCEL>>
    /\ PendingPickups(events, last.rider) = 0
    /\ waiting # <<>>
    /\ \E r \in RiderObjs : PendingPickups(events, r) = 1

\* C24: between two event executions, when a rider is queued and a
\* registered driver is idle, a DriverRequest of that driver is pending at
\* the current timestamp.
C24_NoLostWakeUp ==
    (pc = "running" /\ waiting # <<>>) =>
        \A d \in IdleRegistered : DriverRequest(now, d) \in BagToSet(events)

\* A Dropoff freed a registered driver while a rider is queued, and the
\* driver's DriverRequest is pending at the time of the Dropoff.
C24_Witness ==
    /\ pc = "running"
    /\ last.op = "Dropoff"
    /\ waiting # <<>>
    /\ last.driver \in IdleRegistered
    /\ DriverRequest(now, last.driver) \in BagToSet(events)

\* C25: when run has returned, every rider that issued a RiderRequest is
\* Cancelled or Satisfied, every Satisfied rider has been dropped off, the
\* waiting queue is empty, and every registered driver is idle without a
\* destination.
C25_RunEndState ==
    pc = "done" =>
        /\ \A r \in RiderObjs :
              /\ RiderLog(log, r) # <<>> =>
                    rider[r].status \in {CANCELLED, SATISFIED}
              /\ rider[r].status = SATISFIED =>
                    /\ RiderLog(log, r) # <<>>
                    /\ RiderLog(log, r)[Len(RiderLog(log, r))].activity = DROPOFF
        /\ waiting = <<>>
        /\ \A d \in Registered(drivers) :
              driver[d].is_idle /\ driver[d].destination = NoneLoc

\* run returned after one rider was dropped off and another one, which had
\* been queued, gave up.
C25_Witness ==
    /\ pc = "done"
    /\ \E r \in RiderObjs :
          /\ rider[r].status = SATISFIED
          /\ Activities(RiderLog(log, r)) = <<REQUEST, PICKUP, DROPOFF>>
    /\ \E r \in RiderObjs :
          /\ rider[r].status = CANCELLED
          /\ Activities(RiderLog(log, r)) = <<REQUEST, CANCEL>>
    /\ \E d \in Registered(drivers) : driver[d].location # NoneLoc

====
